---------------------------- MODULE Spec2Model ----------------------------
(***************************************************************************)
(* Deferred-computation subsystem of plonky2x:                             *)
(*   - the drain of an EcOpAccelerator (curta_constrain_ec_op),            *)
(*   - EthStorageKeyGenerator and EthLogGenerator (run_once, serialize,    *)
(*     deserialize).                                                       *)
(* A Variable is the list of its targets; a target is a virtual target     *)
(* index; a witness maps target indices to values.                         *)
(***************************************************************************)
EXTENDS Integers, Sequences, FiniteSets, TLC

VARIABLES
    ec_op_requests,   \* EcOpAccelerator.ec_op_requests
    ec_op_responses,  \* EcOpAccelerator.ec_op_responses
    pos,              \* number of (request, response) pairs the zip has yielded
    drain,            \* "running" | "done" | "panicked"
    hints,            \* hints registered with the builder, in order
    constraints,      \* assert_is_equal calls made on the builder, in order
    gen,              \* the generator registered with the circuit
    provider,         \* what the RPC provider of the chain answers
    runs,             \* the run_once calls made so far, each with its outcome
    dst,              \* the bytes serialize wrote
    restored,         \* what deserialize returned
    phase             \* "fresh" | "serialized" | "restored" | "ran"

drainVars == <<ec_op_requests, ec_op_responses, pos, drain, hints, constraints>>

genVars == <<gen, provider, runs>>

serVars == <<dst, restored, phase>>

vars == <<drainVars, genVars, serVars>>

-----------------------------------------------------------------------------
(* Bounds *)

MaxReqs == 5

MaxRuns == 2

MaxLogs == 3

-----------------------------------------------------------------------------
(* Generic helpers *)

Min(a, b) == IF a <= b THEN a ELSE b

BSeq(S, n) == UNION {[1..m -> S] : m \in 0..n}

Range(s) == {s[i] : i \in 1..Len(s)}

-----------------------------------------------------------------------------
(* EcOpRequest / EcOpRequestType *)

EcOpRequestType == {"Add", "ScalarMul", "Decompress", "IsValid"}

\* Operand handles: 1, 2 affine points, 3 a scalar, 4 a compressed point.
Add(a, b) == [variant |-> "Add", operands |-> <<a, b>>]
ScalarMul(scalar, point) == [variant |-> "ScalarMul", operands |-> <<scalar, point>>]
Decompress(compressedPoint) == [variant |-> "Decompress", operands |-> <<compressedPoint>>]
IsValid(point) == [variant |-> "IsValid", operands |-> <<point>>]

EcOpRequest == {Add(1, 2), ScalarMul(3, 1), Decompress(4), IsValid(2)}

req_type(request) ==
    CASE request.variant = "Add" -> "Add"
      [] request.variant = "ScalarMul" -> "ScalarMul"
      [] request.variant = "Decompress" -> "Decompress"
      [] request.variant = "IsValid" -> "IsValid"

\* Option<AffinePointVariable>
None == <<>>
Some(v) == <<v>>

\* The placeholder handed out when request i was issued: handles are
\* allocated fresh, so no two requests share one.
PlaceholderAt(i) == 10 + i

ResponseSeqs(n) ==
    UNION {{[i \in 1..m |-> IF present[i] THEN Some(PlaceholderAt(i)) ELSE None] :
                present \in [1..m -> BOOLEAN]} : m \in 0..n}

-----------------------------------------------------------------------------
(* curta_constrain_ec_op *)

\* requests.iter().zip(responses.iter()): the number of pairs it yields
ZipLen(requests, responses) == Min(Len(requests), Len(responses))

\* a zip that pairs request i with the i-th response from the back
ZipItemReversed(requests, responses, i) ==
    <<requests[i], responses[Len(responses) - i + 1]>>

\* the i-th pair the zip yields
ZipItem(requests, responses, i) == <<requests[i], responses[i]>>

\* the first match: what is written to the input stream
InputStream(request) == request.operands

\* one hint per request type: a request whose type already has a hint adds none
RegisterHintBatched(hs, request) ==
    IF \E k \in 1..Len(hs) : hs[k].req_type = req_type(request)
    THEN hs
    ELSE Append(hs, [req_type |-> req_type(request), input |-> InputStream(request)])

\* EcOpResultHint::new(request.req_type()) ; self.hint(input_stream, result_hint)
RegisterHint(hs, request) ==
    Append(hs, [req_type |-> req_type(request), input |-> InputStream(request)])

\* a second match whose constraining arm leaves Decompress out
NeedsResultNoDecompress(request) == request.variant \in {"Add", "ScalarMul"}

\* the second match: the arms that read a result and constrain it
NeedsResult(request) == request.variant \in {"Add", "ScalarMul", "Decompress"}

CurrentPair == ZipItem(ec_op_requests, ec_op_responses, pos + 1)

HasNext == drain = "running" /\ pos < ZipLen(ec_op_requests, ec_op_responses)

\* An iteration on Add / ScalarMul / Decompress whose response is Some: the
\* hint is registered, its output is read and asserted equal to the response.
ConstrainResult ==
    /\ HasNext
    /\ NeedsResult(CurrentPair[1])
    /\ CurrentPair[2] # None
    /\ LET hs == RegisterHint(hints, CurrentPair[1])
       IN /\ hints' = hs
          /\ constraints' = Append(constraints,
                 [result |-> Len(hs), response |-> CurrentPair[2][1]])
    /\ pos' = pos + 1
    /\ UNCHANGED <<ec_op_requests, ec_op_responses, drain, genVars, serVars>>

\* An iteration on IsValid: the hint is registered, nothing is read back.
ConstrainIsValid ==
    /\ HasNext
    /\ ~NeedsResult(CurrentPair[1])
    /\ hints' = RegisterHint(hints, CurrentPair[1])
    /\ pos' = pos + 1
    /\ UNCHANGED <<ec_op_requests, ec_op_responses, drain, constraints, genVars, serVars>>

\* an iteration that passes over a None response instead of panicking
SkipMissingResponse ==
    /\ HasNext
    /\ NeedsResult(CurrentPair[1])
    /\ CurrentPair[2] = None
    /\ hints' = RegisterHint(hints, CurrentPair[1])
    /\ pos' = pos + 1
    /\ UNCHANGED <<ec_op_requests, ec_op_responses, drain, constraints, genVars, serVars>>

\* An iteration on Add / ScalarMul / Decompress whose response is None:
\* the hint is registered, then response.expect(..) panics.
PanicMissingResponse ==
    /\ HasNext
    /\ NeedsResult(CurrentPair[1])
    /\ CurrentPair[2] = None
    /\ hints' = RegisterHint(hints, CurrentPair[1])
    /\ drain' = "panicked"
    /\ UNCHANGED <<ec_op_requests, ec_op_responses, pos, constraints, genVars, serVars>>

\* The zip is exhausted: the function returns.
DrainReturn ==
    /\ drain = "running"
    /\ pos = ZipLen(ec_op_requests, ec_op_responses)
    /\ drain' = "done"
    /\ UNCHANGED <<ec_op_requests, ec_op_responses, pos, hints, constraints, genVars, serVars>>

\* No generator is registered.
NoGenerator ==
    /\ gen = [kind |-> "none"]
    /\ provider = [kind |-> "none"]
    /\ runs = <<>>

\* Nothing has been serialized.
NothingPersisted ==
    /\ dst = <<>>
    /\ restored = [ok |-> FALSE]
    /\ phase = "fresh"

\* No accelerator is being drained.
NoAccelerator ==
    /\ ec_op_requests = <<>>
    /\ ec_op_responses = <<>>
    /\ pos = 0
    /\ drain = "idle"
    /\ hints = <<>>
    /\ constraints = <<>>

InitDrain ==
    /\ ec_op_requests \in BSeq(EcOpRequest, MaxReqs)
    /\ ec_op_responses \in ResponseSeqs(MaxReqs)
    /\ pos = 0
    /\ drain = "running"
    /\ hints = <<>>
    /\ constraints = <<>>
    /\ NoGenerator
    /\ NothingPersisted

NextDrain ==
    \/ ConstrainResult
    \/ ConstrainIsValid
    \/ PanicMissingResponse
    \/ DrainReturn

SpecDrain == InitDrain /\ [][NextDrain]_vars

-----------------------------------------------------------------------------
(* Properties of curta_constrain_ec_op *)

ComputeVariants == {"Add", "ScalarMul", "Decompress"}

ComputeIndices == {i \in 1..Len(ec_op_requests) : ec_op_requests[i].variant \in ComputeVariants}

\* The Accelerator invariant of the data model: equal lengths, and a response
\* wherever the request is not IsValid.
WellFormed ==
    /\ Len(ec_op_requests) = Len(ec_op_responses)
    /\ \A i \in ComputeIndices : ec_op_responses[i] # None

\* C1: for a well-formed accelerator the drain does not fail, and once it has
\* returned the number of equality constraints equals the number of Add,
\* ScalarMul and Decompress requests; no constraint belongs to an IsValid
\* request, with or without a response.
C1_ConstraintCount ==
    WellFormed =>
        /\ drain # "panicked"
        /\ drain = "done" =>
             /\ Len(constraints) = Cardinality(ComputeIndices)
             /\ \A i \in 1..Len(ec_op_requests) :
                    ec_op_requests[i].variant = "IsValid" =>
                        \A j \in 1..Len(constraints) :
                            /\ constraints[j].result # i
                            /\ ec_op_responses[i] # Some(constraints[j].response)

C1_Witness ==
    /\ WellFormed
    /\ drain = "done"
    /\ Len(constraints) >= 2
    /\ \E i, j \in 1..Len(ec_op_requests) :
           /\ ec_op_requests[i].variant = "IsValid" /\ ec_op_responses[i] # None
           /\ ec_op_requests[j].variant = "IsValid" /\ ec_op_responses[j] = None

IsPrefix(s, t) == Len(s) <= Len(t) /\ SubSeq(t, 1, Len(s)) = s

C2_Aligned ==
    /\ \A k \in 1..Len(hints) :
           /\ k <= Len(ec_op_requests)
           /\ hints[k].req_type = ec_op_requests[k].variant
           /\ hints[k].input = ec_op_requests[k].operands
    /\ \A j \in 1..Len(constraints) :
           /\ constraints[j].result \in 1..Len(hints)
           /\ constraints[j].result <= Len(ec_op_responses)
           /\ ec_op_requests[constraints[j].result].variant \in ComputeVariants
           /\ ec_op_responses[constraints[j].result] = Some(constraints[j].response)
           /\ j > 1 => constraints[j - 1].result < constraints[j].result

\* C2: requests are processed in insertion order: hints and constraints are
\* only ever appended, the k-th hint has the type (and operands) of the k-th
\* request, and every constraint binds the result of the hint of some request
\* i to the response stored at the same index i.
C2_InsertionOrder ==
    /\ []C2_Aligned
    /\ [][IsPrefix(hints, hints') /\ IsPrefix(constraints, constraints')
          /\ pos' >= pos]_vars

C2_Witness ==
    /\ drain = "done"
    /\ Len(ec_op_requests) = 5
    /\ \A i \in 1..5 : ec_op_requests[i].variant =
           <<"Add", "ScalarMul", "Decompress", "IsValid", "Add">>[i]
    /\ Len(hints) = Len(ec_op_requests)
    /\ Len(constraints) = Cardinality(ComputeIndices)

MissingAtCursor ==
    /\ drain = "running"
    /\ pos < Len(ec_op_requests)
    /\ pos < Len(ec_op_responses)
    /\ ec_op_requests[pos + 1].variant \in ComputeVariants
    /\ ec_op_responses[pos + 1] = None

\* C3: when the drain reaches an Add, ScalarMul or Decompress request whose
\* response is None it fails in that very step, emitting no constraint for
\* it, and nothing happens after the failure.
C3_FailsImmediately ==
    /\ [][MissingAtCursor =>
            /\ drain' = "panicked"
            /\ constraints' = constraints
            /\ pos' = pos]_vars
    /\ [][drain = "panicked" => FALSE]_vars
    /\ [](drain = "panicked" =>
            /\ ec_op_requests[pos + 1].variant \in ComputeVariants
            /\ ec_op_responses[pos + 1] = None
            /\ Len(hints) = pos + 1
            /\ \A j \in 1..Len(constraints) : constraints[j].result <= pos)

C3_Witness ==
    /\ drain = "panicked"
    /\ pos >= 1
    /\ Len(constraints) >= 1
    /\ pos + 1 < ZipLen(ec_op_requests, ec_op_responses)

VariantsPresent == {ec_op_requests[i].variant : i \in 1..Len(ec_op_requests)}

\* C4 as stated: a completed drain of a well-formed accelerator has made one
\* ResultHint invocation per RequestType present.
C4_OneHintPerType ==
    (WellFormed /\ drain = "done") => Len(hints) = Cardinality(VariantsPresent)

\* C4 amended: the drain makes one ResultHint invocation per request it
\* processes; a completed drain has made as many as the zip yields pairs,
\* which is the number of requests when both sequences have equal length.
C4_OneHintPerRequest ==
    /\ Len(hints) = pos + (IF drain = "panicked" THEN 1 ELSE 0)
    /\ drain = "done" =>
         /\ Len(hints) = Min(Len(ec_op_requests), Len(ec_op_responses))
         /\ Len(ec_op_requests) = Len(ec_op_responses) =>
                Len(hints) = Len(ec_op_requests)

C4_Witness ==
    /\ WellFormed
    /\ drain = "done"
    /\ Len(hints) = Len(ec_op_requests)
    /\ \E i, j \in 1..Len(ec_op_requests) :
           i # j /\ ec_op_requests[i].variant = ec_op_requests[j].variant
    /\ Len(hints) > Cardinality(VariantsPresent)

\* C10: whatever the accelerator, a drain that returns without failing has
\* given every Add, ScalarMul and Decompress request its hint and its
\* equality constraint.
C10_NeverOmitted ==
    drain = "done" =>
        \A i \in ComputeIndices :
            /\ i <= Len(hints)
            /\ \E j \in 1..Len(constraints) : constraints[j].result = i


-----------------------------------------------------------------------------
(* Variables, witnesses and generated values *)

Bit == {0, 1}

\* CircuitVariable::get: the values the witness holds for the targets
Get(variable, witness) == [i \in 1..Len(variable) |-> witness[variable[i]]]

\* CircuitVariable::set: one (target, value) pair per target, appended
Set(variable, buffer, value) ==
    buffer \o [i \in 1..Len(variable) |-> <<variable[i], value[i]>>]

\* GeneratedValues as run_once receives it
EmptyBuffer == <<>>

Panicked(buffer) == [status |-> "panicked", buffer |-> buffer]

Completed(buffer) == [status |-> "ok", buffer |-> buffer]

-----------------------------------------------------------------------------
(* EthStorageKeyGenerator *)

\* A U256 is its four 64-bit words, least significant first; a U256Variable
\* has one target per word here.
U256Vars == {<<0, 1, 2, 3>>, <<258, 259, 260, 261>>}

Bytes32Vars == {<<4>>, <<5>>, <<262>>}

EthStorageKeyGenerator ==
    {g \in {[kind |-> "key", mapping_location |-> ml, map_key |-> mk, value |-> v] :
                ml \in U256Vars, mk \in Bytes32Vars, v \in Bytes32Vars} :
        g.value # g.map_key}

KeyDependencies(g) == g.mapping_location \o g.map_key

\* U256::as_u128 panics when a word above the low 128 bits is set
AsU128Overflows(words) == \E i \in 3..4 : words[i] # 0

\* U256::low_u128
LowU128(words) == <<words[1], words[2]>>

\* keccak256 over the key and the slot, as an uninterpreted injective term
get_map_storage_location(mapping_location, map_key) ==
    [keccak256 |-> <<map_key, mapping_location>>]

KeyRunOnce(g, witness, buffer) ==
    LET mapping_location == Get(g.mapping_location, witness)
        map_key == Get(g.map_key, witness)
    IN IF AsU128Overflows(mapping_location)
       THEN Panicked(buffer)
       ELSE Completed(Set(g.value, buffer,
                <<get_map_storage_location(LowU128(mapping_location), map_key[1])>>))

\* The scheduler runs the generator on a witness that resolves its
\* dependencies.
RunStorageKey ==
    /\ gen.kind = "key"
    /\ phase = "fresh"
    /\ Len(runs) < MaxRuns
    /\ \E witness \in [Range(KeyDependencies(gen)) -> Bit] :
           runs' = Append(runs, [witness |-> witness,
                                 result |-> KeyRunOnce(gen, witness, EmptyBuffer)])
    /\ UNCHANGED <<gen, provider, drainVars, serVars>>

InitKey ==
    /\ gen \in EthStorageKeyGenerator
    /\ provider = [kind |-> "none"]
    /\ runs = <<>>
    /\ NoAccelerator
    /\ NothingPersisted

NextKey == RunStorageKey

SpecKey == InitKey /\ [][NextKey]_vars

-----------------------------------------------------------------------------
(* EthLogGenerator *)

Hashes == {0, 1}

\* ethers Log: address, topics, data
Logs ==
    { [address |-> 1, topics |-> <<1, 2, 3>>, data |-> 1],
      [address |-> 2, topics |-> <<4, 5, 6, 7>>, data |-> 2],
      [address |-> 2, topics |-> <<4, 5, 6, 8>>, data |-> 2],
      [address |-> 3, topics |-> <<1, 2>>, data |-> 3] }

\* sha2::Sha256::digest, as an uninterpreted injective term
Sha256(data) == [sha256 |-> data]

\* Result<Option<TransactionReceipt>, ProviderError>
Err == [kind |-> "Err", receipt |-> None]
Ok(receipt) == [kind |-> "Ok", receipt |-> receipt]

Responses(n) ==
    {Err, Ok(None)} \cup
    {Ok(Some([block_hash |-> bh, logs |-> logs])) : bh \in Hashes, logs \in BSeq(Logs, n)}

\* The chain holds one transaction; any other hash has no receipt.
Providers(n) ==
    {[kind |-> "rpc", transaction |-> h, response |-> r] : h \in Hashes, r \in Responses(n)}

get_transaction_receipt(prov, transaction_hash) ==
    IF transaction_hash = prov.transaction THEN prov.response ELSE Ok(None)

EthLogVars == {<<6, 7, 8, 9, 10>>, <<263, 264, 265, 266, 267>>}

ChainIds == {1, 42161}

EthLogGenerator(logIndexes) ==
    {[kind |-> "log", transaction_hash |-> th, block_hash |-> bh, log_index |-> li,
      value |-> v, chain_id |-> c] :
        th \in Bytes32Vars, bh \in Bytes32Vars, li \in logIndexes,
        v \in EthLogVars, c \in ChainIds}

LogDependencies(g) == g.transaction_hash \o g.block_hash

WriteEthLog(g, buffer, log) ==
    Set(g.value, buffer,
        <<log.address, log.topics[1], log.topics[2], log.topics[3], Sha256(log.data)>>)

\* run_once that writes the address before it reads the topics
LogRunOncePartial(g, witness, prov, buffer) ==
    LET transaction_hash == Get(g.transaction_hash, witness)[1]
        response == get_transaction_receipt(prov, transaction_hash)
    IN IF response.kind = "Err" \/ response.receipt = None
       THEN Panicked(buffer)
       ELSE LET logs == response.receipt[1].logs
            IN IF ~(g.log_index < Len(logs))
               THEN Panicked(buffer)
               ELSE IF Len(logs[g.log_index + 1].topics) < 3
                    THEN Panicked(Set(SubSeq(g.value, 1, 1), buffer,
                                      <<logs[g.log_index + 1].address>>))
                    ELSE Completed(WriteEthLog(g, buffer, logs[g.log_index + 1]))

\* run_once that always takes the first log of the receipt
LogRunOnceFirstLog(g, witness, prov, buffer) ==
    LET transaction_hash == Get(g.transaction_hash, witness)[1]
        response == get_transaction_receipt(prov, transaction_hash)
    IN IF response.kind = "Err" \/ response.receipt = None
       THEN Panicked(buffer)
       ELSE LET logs == response.receipt[1].logs
            IN IF ~(g.log_index < Len(logs))
               THEN Panicked(buffer)
               ELSE IF Len(logs[1].topics) < 3
                    THEN Panicked(buffer)
                    ELSE Completed(WriteEthLog(g, buffer, logs[1]))

\* run_once that checks the receipt against the block hash of the witness
LogRunOnceBlockPinned(g, witness, prov, buffer) ==
    LET transaction_hash == Get(g.transaction_hash, witness)[1]
        block_hash == Get(g.block_hash, witness)[1]
        response == get_transaction_receipt(prov, transaction_hash)
    IN IF response.kind = "Err" \/ response.receipt = None
       THEN Panicked(buffer)
       ELSE LET logs == response.receipt[1].logs
            IN IF response.receipt[1].block_hash # block_hash
               THEN Panicked(buffer)
               ELSE IF ~(g.log_index < Len(logs))
                    THEN Panicked(buffer)
                    ELSE IF Len(logs[g.log_index + 1].topics) < 3
                         THEN Panicked(buffer)
                         ELSE Completed(WriteEthLog(g, buffer, logs[g.log_index + 1]))

LogRunOnce(g, witness, prov, buffer) ==
    LET transaction_hash == Get(g.transaction_hash, witness)[1]
        _block_hash == Get(g.block_hash, witness)[1]
        response == get_transaction_receipt(prov, transaction_hash)
    IN IF response.kind = "Err"
       THEN Panicked(buffer)      \* expect("Failed to call get_transaction_receipt")
       ELSE IF response.receipt = None
       THEN Panicked(buffer)      \* expect("No transaction receipt found")
       ELSE LET logs == response.receipt[1].logs
            IN IF ~(g.log_index < Len(logs))
               THEN Panicked(buffer)      \* result.logs[..] out of bounds
               ELSE IF Len(logs[g.log_index + 1].topics) < 3
                    THEN Panicked(buffer) \* log.topics[..] out of bounds
                    ELSE Completed(WriteEthLog(g, buffer, logs[g.log_index + 1]))

RunLog ==
    /\ gen.kind = "log"
    /\ phase = "fresh"
    /\ Len(runs) < MaxRuns
    /\ \E witness \in [Range(LogDependencies(gen)) -> Hashes] :
           runs' = Append(runs, [witness |-> witness,
                                 result |-> LogRunOnce(gen, witness, provider, EmptyBuffer)])
    /\ UNCHANGED <<gen, provider, drainVars, serVars>>

InitLog ==
    /\ gen \in {g \in EthLogGenerator(0..MaxLogs) :
                   /\ g.transaction_hash = <<4>>
                   /\ g.block_hash = <<5>>
                   /\ g.value = <<6, 7, 8, 9, 10>>
                   /\ g.chain_id = 1}
    /\ provider \in Providers(MaxLogs)
    /\ runs = <<>>
    /\ NoAccelerator
    /\ NothingPersisted

NextLog == RunLog

SpecLog == InitLog /\ [][NextLog]_vars


-----------------------------------------------------------------------------
(* Properties of the generators' run_once *)

\* the values a run read for the generator's inputs
KeyInput(r) == <<Get(gen.mapping_location, r.witness), Get(gen.map_key, r.witness)>>

\* C8: run_once of the storage-key generator writes an output for every
\* mapping_location and map_key, the same output for the same pair, and
\* different outputs for different pairs.
C8_DeterministicCollisionFree ==
    gen.kind = "key" =>
        \A i, j \in 1..Len(runs) :
            /\ runs[i].result.status = "ok"
            /\ runs[i].result.buffer # EmptyBuffer
            /\ KeyInput(runs[i]) = KeyInput(runs[j]) =>
                   runs[i].result.buffer = runs[j].result.buffer
            /\ KeyInput(runs[i]) # KeyInput(runs[j]) =>
                   runs[i].result.buffer # runs[j].result.buffer

\* what the provider answers for the transaction hash a run read
ReceiptFor(r) == get_transaction_receipt(provider, r.witness[gen.transaction_hash[1]])

HasSelectedLog(r) ==
    /\ ReceiptFor(r).kind = "Ok"
    /\ ReceiptFor(r).receipt # None
    /\ gen.log_index < Len(ReceiptFor(r).receipt[1].logs)

SelectedLog(r) == ReceiptFor(r).receipt[1].logs[gen.log_index + 1]

Fetched(r) == HasSelectedLog(r) /\ Len(SelectedLog(r).topics) >= 3

\* C6: a run of the log generator whose provider call errors, finds no
\* receipt, has log_index outside the receipt's logs or selects a log with
\* fewer than three topics fails, and leaves the buffer as it was.
C6_NoPartialWrite ==
    gen.kind = "log" =>
        \A i \in 1..Len(runs) :
            /\ ~Fetched(runs[i]) => runs[i].result.status = "panicked"
            /\ runs[i].result.status = "panicked" => runs[i].result.buffer = EmptyBuffer

C6_Witness ==
    /\ gen.kind = "log"
    /\ \E i \in 1..Len(runs) :
           /\ HasSelectedLog(runs[i])
           /\ Len(SelectedLog(runs[i]).topics) < 3
           /\ runs[i].result = Panicked(EmptyBuffer)
    /\ \E i \in 1..Len(runs) :
           /\ ReceiptFor(runs[i]) = Ok(None)
           /\ runs[i].result = Panicked(EmptyBuffer)

\* C7: a run of the log generator whose receipt has a log at log_index with
\* at least three topics writes the address of that log, its first three
\* topics in order and the hash of its data, to the targets of value in
\* order, and nothing else.
C7_WritesSelectedLog ==
    gen.kind = "log" =>
        \A i \in 1..Len(runs) :
            Fetched(runs[i]) =>
                /\ runs[i].result.status = "ok"
                /\ runs[i].result.buffer =
                       << <<gen.value[1], SelectedLog(runs[i]).address>>,
                          <<gen.value[2], SelectedLog(runs[i]).topics[1]>>,
                          <<gen.value[3], SelectedLog(runs[i]).topics[2]>>,
                          <<gen.value[4], SelectedLog(runs[i]).topics[3]>>,
                          <<gen.value[5], [sha256 |-> SelectedLog(runs[i]).data]>> >>

C7_Witness ==
    /\ gen.kind = "log"
    /\ gen.log_index = 1
    /\ \E i \in 1..Len(runs) :
           /\ Fetched(runs[i])
           /\ Len(ReceiptFor(runs[i]).receipt[1].logs) = 3
           /\ ReceiptFor(runs[i]).receipt[1].logs[3] # SelectedLog(runs[i])
           /\ Len(SelectedLog(runs[i]).topics) = 4
           /\ ReceiptFor(runs[i]).receipt[1].logs[1] # SelectedLog(runs[i])
           /\ runs[i].result.status = "ok"
           /\ runs[i].result.buffer[1] = <<gen.value[1], 2>>

\* C9: the log generator lists the targets of transaction_hash and of
\* block_hash as dependencies, and two runs against the same provider that
\* read the same transaction hash have the same outcome whatever block hash
\* each read.
C9_BlockHashUnused ==
    gen.kind = "log" =>
        /\ LogDependencies(gen) = gen.transaction_hash \o gen.block_hash
        /\ \A i, j \in 1..Len(runs) :
               runs[i].witness[gen.transaction_hash[1]] =
                   runs[j].witness[gen.transaction_hash[1]] =>
                       runs[i].result = runs[j].result

C9_Witness ==
    /\ gen.kind = "log"
    /\ \E i, j \in 1..Len(runs) :
           /\ runs[i].witness[gen.transaction_hash[1]] =
                  runs[j].witness[gen.transaction_hash[1]]
           /\ runs[i].witness[gen.block_hash[1]] # runs[j].witness[gen.block_hash[1]]
           /\ runs[i].result.status = "ok"
           /\ runs[j].result.status = "ok"
           /\ ReceiptFor(runs[i]).receipt[1].block_hash # runs[j].witness[gen.block_hash[1]]


-----------------------------------------------------------------------------
(* Serialization: plonky2's Write / Read on a byte buffer *)

RECURSIVE ShiftRightBytes(_, _)
ShiftRightBytes(n, k) == IF k = 0 THEN n ELSE ShiftRightBytes(n \div 256, k - 1)

\* u64::to_be_bytes
to_be_bytes(n) == [i \in 1..8 |-> ShiftRightBytes(n, 8 - i) % 256]

\* u64::to_le_bytes
to_le_bytes(n) == [i \in 1..8 |-> ShiftRightBytes(n, i - 1) % 256]

RECURSIVE from_be_bytes(_)
from_be_bytes(bytes) ==
    IF bytes = <<>> THEN 0
    ELSE from_be_bytes(SubSeq(bytes, 1, Len(bytes) - 1)) * 256 + bytes[Len(bytes)]

RECURSIVE from_le_bytes(_)
from_le_bytes(bytes) ==
    IF bytes = <<>> THEN 0
    ELSE from_le_bytes(Tail(bytes)) * 256 + Head(bytes)

\* Write::write_usize: the value as a little-endian u64
write_usize(out, x) == out \o to_le_bytes(x)

\* Write::write_target of a virtual target: write_bool(false), then its index
write_target(out, target) == write_usize(out \o <<0>>, target)

RECURSIVE write_targets(_, _)
write_targets(out, targets) ==
    IF targets = <<>> THEN out
    ELSE write_targets(write_target(out, Head(targets)), Tail(targets))

\* Write::write_target_vec: the length, then each target
write_target_vec(out, targets) == write_targets(write_usize(out, Len(targets)), targets)

\* An IoResult: the value read and the bytes left, or an error
IoError == [ok |-> FALSE, value |-> <<>>, rest |-> <<>>]
IoOk(value, rest) == [ok |-> TRUE, value |-> value, rest |-> rest]

\* Read::read_exact
read_exact(src, n) ==
    IF Len(src) < n THEN IoError
    ELSE IoOk(SubSeq(src, 1, n), SubSeq(src, n + 1, Len(src)))

\* Read::read_usize
read_usize(src) ==
    LET r == read_exact(src, 8)
    IN IF r.ok THEN IoOk(from_le_bytes(r.value), r.rest) ELSE IoError

\* Read::read_target: a bool, then a wire's row and column or a virtual
\* target's index
read_target(src) ==
    LET is_wire == read_exact(src, 1)
    IN IF ~is_wire.ok THEN IoError
       ELSE IF is_wire.value[1] = 1
       THEN LET row == read_usize(is_wire.rest)
            IN IF ~row.ok THEN IoError
               ELSE LET column == read_usize(row.rest)
                    IN IF ~column.ok THEN IoError
                       ELSE IoOk([row |-> row.value, column |-> column.value], column.rest)
       ELSE read_usize(is_wire.rest)

RECURSIVE read_targets(_, _, _)
read_targets(src, n, acc) ==
    IF n = 0 THEN IoOk(acc, src)
    ELSE LET t == read_target(src)
         IN IF ~t.ok THEN IoError ELSE read_targets(t.rest, n - 1, Append(acc, t.value))

\* Read::read_target_vec
read_target_vec(src) ==
    LET length == read_usize(src)
    IN IF ~length.ok THEN IoError ELSE read_targets(length.rest, length.value, <<>>)

\* CircuitVariable::targets / from_targets: a variable is its target list
targets(variable) == variable
from_targets(ts) == ts

-----------------------------------------------------------------------------
(* serialize / deserialize of the two generators *)

KeySerialize(g, out) ==
    LET d1 == write_target_vec(out, targets(g.mapping_location))
        d2 == write_target_vec(d1, targets(g.map_key))
    IN write_target_vec(d2, targets(g.value))

KeyDeserialize(src) ==
    LET mapping_location_targets == read_target_vec(src)
    IN IF ~mapping_location_targets.ok THEN [ok |-> FALSE]
       ELSE LET map_key_targets == read_target_vec(mapping_location_targets.rest)
            IN IF ~map_key_targets.ok THEN [ok |-> FALSE]
               ELSE LET value_targets == read_target_vec(map_key_targets.rest)
                    IN IF ~value_targets.ok THEN [ok |-> FALSE]
                       ELSE [ok |-> TRUE,
                             gen |-> [kind |-> "key",
                                      mapping_location |-> from_targets(mapping_location_targets.value),
                                      map_key |-> from_targets(map_key_targets.value),
                                      value |-> from_targets(value_targets.value)]]

LogSerialize(g, out) ==
    LET d1 == out \o to_be_bytes(g.chain_id)
        d2 == write_target_vec(d1, targets(g.transaction_hash))
        d3 == write_target_vec(d2, targets(g.block_hash))
        d4 == d3 \o to_be_bytes(g.log_index)
    IN write_target_vec(d4, targets(g.value))

\* what deserialize returns once its five reads have succeeded
LogFromParts(chain_id, transaction_hash, block_hash, log_index, value) ==
    [ok |-> TRUE,
     gen |-> [kind |-> "log",
              transaction_hash |-> from_targets(transaction_hash),
              block_hash |-> from_targets(block_hash),
              log_index |-> log_index,
              value |-> from_targets(value),
              chain_id |-> chain_id]]

LogReadParts(src) ==
    LET chain_id_bytes == read_exact(src, 8)
    IN IF ~chain_id_bytes.ok THEN [ok |-> FALSE]
       ELSE LET transaction_hash_targets == read_target_vec(chain_id_bytes.rest)
            IN IF ~transaction_hash_targets.ok THEN [ok |-> FALSE]
               ELSE LET block_hash_targets == read_target_vec(transaction_hash_targets.rest)
                    IN IF ~block_hash_targets.ok THEN [ok |-> FALSE]
                       ELSE LET log_index_bytes == read_exact(block_hash_targets.rest, 8)
                            IN IF ~log_index_bytes.ok THEN [ok |-> FALSE]
                               ELSE LET value_targets == read_target_vec(log_index_bytes.rest)
                                    IN IF ~value_targets.ok THEN [ok |-> FALSE]
                                       ELSE [ok |-> TRUE,
                                             chain_id |-> from_be_bytes(chain_id_bytes.value),
                                             first |-> transaction_hash_targets.value,
                                             second |-> block_hash_targets.value,
                                             log_index |-> from_be_bytes(log_index_bytes.value),
                                             value |-> value_targets.value]

\* deserialize that takes the two hash target lists in the other order
LogDeserializeSwapped(src) ==
    LET p == LogReadParts(src)
    IN IF ~p.ok THEN [ok |-> FALSE]
       ELSE LogFromParts(p.chain_id, p.second, p.first, p.log_index, p.value)

LogDeserialize(src) ==
    LET p == LogReadParts(src)
    IN IF ~p.ok THEN [ok |-> FALSE]
       ELSE LogFromParts(p.chain_id, p.first, p.second, p.log_index, p.value)

SerializeKey ==
    /\ gen.kind = "key"
    /\ phase = "fresh"
    /\ dst' = KeySerialize(gen, <<>>)
    /\ phase' = "serialized"
    /\ UNCHANGED <<restored, genVars, drainVars>>

DeserializeKey ==
    /\ gen.kind = "key"
    /\ phase = "serialized"
    /\ restored' = KeyDeserialize(dst)
    /\ phase' = "restored"
    /\ UNCHANGED <<dst, genVars, drainVars>>

SerializeLog ==
    /\ gen.kind = "log"
    /\ phase = "fresh"
    /\ dst' = LogSerialize(gen, <<>>)
    /\ phase' = "serialized"
    /\ UNCHANGED <<restored, genVars, drainVars>>

DeserializeLog ==
    /\ gen.kind = "log"
    /\ phase = "serialized"
    /\ restored' = LogDeserialize(dst)
    /\ phase' = "restored"
    /\ UNCHANGED <<dst, genVars, drainVars>>

\* The generator and the restored one are each run once on the same witness.
RunBothKey ==
    /\ gen.kind = "key"
    /\ phase = "restored"
    /\ restored.ok
    /\ \E witness \in [Range(KeyDependencies(gen)) -> Bit] :
           runs' = << [witness |-> witness,
                       result |-> KeyRunOnce(gen, witness, EmptyBuffer)],
                      [witness |-> witness,
                       result |-> KeyRunOnce(restored.gen, witness, EmptyBuffer)] >>
    /\ phase' = "ran"
    /\ UNCHANGED <<gen, provider, dst, restored, drainVars>>

RunBothLog ==
    /\ gen.kind = "log"
    /\ phase = "restored"
    /\ restored.ok
    /\ \E witness \in [Range(LogDependencies(gen)) -> Hashes] :
           runs' = << [witness |-> witness,
                       result |-> LogRunOnce(gen, witness, provider, EmptyBuffer)],
                      [witness |-> witness,
                       result |-> LogRunOnce(restored.gen, witness, provider, EmptyBuffer)] >>
    /\ phase' = "ran"
    /\ UNCHANGED <<gen, provider, dst, restored, drainVars>>

LogIndexes == {0, 300}

\* Providers of a chain whose one transaction has hash 0, in block 0
SerProviders ==
    {p \in Providers(1) :
        /\ p.transaction = 0
        /\ p.response.receipt # None => p.response.receipt[1].block_hash = 0}

InitSer ==
    /\ gen \in EthStorageKeyGenerator \cup EthLogGenerator(LogIndexes)
    /\ provider \in IF gen.kind = "key" THEN {[kind |-> "none"]} ELSE SerProviders
    /\ runs = <<>>
    /\ NothingPersisted
    /\ NoAccelerator

NextSer ==
    \/ SerializeKey
    \/ DeserializeKey
    \/ RunBothKey
    \/ SerializeLog
    \/ DeserializeLog
    \/ RunBothLog

SpecSer == InitSer /\ [][NextSer]_vars

\* C5: deserialize(serialize(g)) succeeds and has the fields of g, for both
\* generators (mapping_location, map_key, value; chain_id, log_index,
\* transaction_hash, block_hash, value), and run on the same witness it has
\* the outcome g has.
C5_RoundTrip ==
    phase \in {"restored", "ran"} =>
        /\ restored.ok
        /\ restored.gen.kind = gen.kind
        /\ restored.gen.value = gen.value
        /\ gen.kind = "key" =>
               /\ restored.gen.mapping_location = gen.mapping_location
               /\ restored.gen.map_key = gen.map_key
        /\ gen.kind = "log" =>
               /\ restored.gen.chain_id = gen.chain_id
               /\ restored.gen.log_index = gen.log_index
               /\ restored.gen.transaction_hash = gen.transaction_hash
               /\ restored.gen.block_hash = gen.block_hash
        /\ phase = "ran" => runs[1].result = runs[2].result

C5_Witness ==
    /\ phase = "ran"
    /\ gen.kind = "log"
    /\ gen.transaction_hash # gen.block_hash
    /\ gen.chain_id = 42161
    /\ gen.log_index = 0
    /\ gen.value[1] = 263
    /\ restored.gen = gen
    /\ runs[1].result.status = "ok"
    /\ runs[2].result = runs[1].result

=============================================================================
